---- MODULE Spec2Model ----
(***************************************************************************)
(* action-validator: the validation pipeline (run), its two entry points   *)
(* (run_cli behind main, run_js behind validateAction / validateWorkflow),  *)
(* the two semantic passes (validate_paths, validate_job_needs) and the    *)
(* adapter that turns the schema engine's errors into ValidationError.     *)
(*                                                                         *)
(* External collaborators are modelled by their contracts: serde_yaml      *)
(* (a text either fails to parse or yields a value), valico (a document    *)
(* yields an engine state: a list of engine errors, anyOf / oneOf errors   *)
(* holding one sub-state per branch), glob (a pattern either fails to      *)
(* compile or yields the matching entries of the working directory) and    *)
(* the file system (a path is readable or not).                            *)
(***************************************************************************)
EXTENDS Integers, Sequences, FiniteSets, TLC

VARIABLES
    feature_js,   \* the build: TRUE when compiled with feature "js"
    yaml,         \* the YAML text at hand, represented by what serde_yaml makes of it
    run_config,   \* Option<RunConfig>: the RunConfig the entry point built
    pc,           \* "start" | "cli" | "cli_returned" | "exited" | "js_returned" | "js_panicked"
    config,       \* the CliConfig main parsed, or the JsConfig of a binding call
    state,        \* Option<ValidationState>: the state run() returned, None before or on panic
    result,       \* run_cli's Result ("Ok" | "Err" | "Panic"), "JsValue" for run_js, "none" before
    exit_code,    \* the process exit code of main, -1 while running
    file,         \* fs::read_to_string of the CLI's path: Some(text), None when unreadable
    valico,       \* the schema engine's verdict on the document at hand: an engine state
    log           \* the diagnostics written through log::log / log::warn / log::error

vars == <<feature_js, yaml, run_config, pc, config, state, result, exit_code, file, valico, log>>

(***************************************************************************)
(* Bounds of the model.                                                    *)
(***************************************************************************)
MaxNeeds == 2      \* longest `needs` sequence of a job
MaxGlobs == 2      \* longest sequence of a trigger-path field
MaxErrors == 2     \* longest error list of an engine state
MaxBranches == 2   \* most branch sub-states of an anyOf / oneOf engine error

(***************************************************************************)
(* Option<T>: None is the empty sequence, Some(x) the one-element one.     *)
(***************************************************************************)
None == <<>>
Some(x) == <<x>>
is_some(o) == Len(o) = 1
unwrap(o) == o[1]

SeqsUpTo(S, n) == UNION {[1..k -> S] : k \in 0..n}

(***************************************************************************)
(* serde_json::Value.  An object keeps its entries as a sequence of        *)
(* <<key, value>> pairs, in the map's iteration order.                     *)
(***************************************************************************)
Null == [t |-> "null"]
Str(s) == [t |-> "str", s |-> s]
Num(n) == [t |-> "num", n |-> n]
Arr(a) == [t |-> "arr", a |-> a]
Obj(o) == [t |-> "obj", o |-> o]

is_null(v) == v.t = "null"
is_str(v) == v.t = "str"
is_array(v) == v.t = "arr"
is_object(v) == v.t = "obj"

contains_key(map, key) == \E i \in 1..Len(map) : map[i][1] = key

\* value[key]: Null when value is no object or has no such key
Index(v, key) ==
    IF is_object(v) /\ contains_key(v.o, key)
    THEN v.o[CHOOSE i \in 1..Len(v.o) : v.o[i][1] = key][2]
    ELSE Null

\* Display of a JSON string value: the text in double quotes
DisplayStr(v) == "\"" \o v.s \o "\""

(***************************************************************************)
(* The glob crate over the working directory.  glob(pattern) is Err when   *)
(* the pattern does not compile, else the iterator over the entries that   *)
(* match; count is what res.count() returns.                             *)
(***************************************************************************)
CwdFiles == {"src/lib.rs", "src/main.rs", "README.md"}

PatternMatches(pattern) ==
    CASE pattern = "src/*.rs" -> {"src/lib.rs", "src/main.rs"}
      [] pattern = "README.md" -> {"README.md"}
      [] OTHER -> {}

PatternError(pattern) ==
    CASE pattern = "[unterminated" -> Some("Pattern syntax error near position 0: invalid range pattern")
      [] pattern = "a/***" -> Some("Pattern syntax error near position 2: recursive wildcards must form a single path component")
      [] OTHER -> None

GlobResult(err, entries) ==
    IF is_some(err)
    THEN [ok |-> FALSE, e |-> unwrap(err), count |-> 0]
    ELSE [ok |-> TRUE, e |-> "", count |-> Cardinality(entries)]

glob(pattern) == GlobResult(PatternError(pattern), PatternMatches(pattern) \cap CwdFiles)

(***************************************************************************)
(* ValidationErrorMetadata, ValidationError, ValidationState.              *)
(***************************************************************************)
ValidationErrorMetadata(code, path, title, detail) ==
    [code |-> code, path |-> path, title |-> title, detail |-> detail]

NoFilesMatchingGlobError(g, path) ==
    [variant |-> "NoFilesMatchingGlobError",
     meta |-> ValidationErrorMetadata(
         "glob_not_matched", path, "Glob does not match any files",
         Some("Glob " \o DisplayStr(g) \o " in " \o path \o " does not match any files"))]

InvalidGlobError(g, path, e) ==
    [variant |-> "InvalidGlobError",
     meta |-> ValidationErrorMetadata(
         "invalid_glob", path, "Glob does not match any files",
         Some("Glob " \o DisplayStr(g) \o " in " \o path \o " is invalid: " \o e))]

UnresolvedJobError(job_name, needs_str) ==
    [variant |-> "UnresolvedJobError",
     meta |-> ValidationErrorMetadata(
         "unresolved_job", "/jobs/" \o job_name \o "/needs", "Unresolved job",
         Some("unresolved job " \o needs_str))]

\* impl From<serde_yaml::Error> for ParseErrorMetadata / ValidationError
ParseError(err) ==
    [variant |-> "ParseError",
     meta |-> [code |-> "parse_error", title |-> "Parse Error",
               detail |-> err.msg, location |-> err.location]]

ValidationState(action_type, file_path, errors) ==
    [action_type |-> action_type, file_path |-> file_path, errors |-> errors]

is_valid(st) == st.errors = <<>>

(***************************************************************************)
(* The semantic passes.  A pass works on ps = [panic, errors, log]: the    *)
(* errors of the &mut ValidationState it was handed, the diagnostics       *)
(* written so far, and whether the thread has panicked (nothing runs after *)
(* a panic).                                                               *)
(***************************************************************************)
Pushed(ps, err) == [ps EXCEPT !.errors = Append(@, err)]
Logged(ps, line) == [ps EXCEPT !.log = Append(@, line)]
Panicked(ps) == [ps EXCEPT !.panic = TRUE]

\* #[cfg(feature = "js")] validate_globs: a warning, never an error
validate_globs_js(globs, path, ps) ==
    IF ~is_null(globs)
    THEN Logged(ps, "WARNING: Glob validation is not yet supported. Glob at "
                    \o path \o " will not be validated.")
    ELSE ps

\* match_glob with the Err arm dropped: a pattern that does not compile is
\* let through
match_glob_ignoring_invalid(g, path, res, ps) ==
    IF res.ok /\ res.count = 0
    THEN Pushed(ps, NoFilesMatchingGlobError(g, path))
    ELSE ps

\* match glob(g.as_str().unwrap()) { Ok(res) => ..., Err(e) => ... }
match_glob(g, path, res, ps) ==
    IF res.ok
    THEN (IF res.count = 0
          THEN Pushed(ps, NoFilesMatchingGlobError(g, path))
          ELSE ps)
    ELSE Pushed(ps, InvalidGlobError(g, path, res.e))

RECURSIVE for_g_in_globs(_, _, _)
\* the loop `for g in globs` of validate_globs; g.as_str().unwrap() panics
\* on an entry that is no string
for_g_in_globs(gs, path, ps) ==
    IF gs = <<>> THEN ps
    ELSE IF ~is_str(Head(gs)) THEN Panicked(ps)
    ELSE for_g_in_globs(Tail(gs), path, match_glob(Head(gs), path, glob(Head(gs).s), ps))

\* #[cfg(not(feature = "js"))] validate_globs
validate_globs_fs(globs, path, ps) ==
    IF is_null(globs) THEN ps
    ELSE IF is_array(globs) THEN for_g_in_globs(globs.a, path, ps)
    ELSE Panicked(ps)   \* unreachable!(...)

validate_globs(globs, path, ps) ==
    IF ps.panic THEN ps
    ELSE IF feature_js THEN validate_globs_js(globs, path, ps)
    ELSE validate_globs_fs(globs, path, ps)

\* the four trigger-path fields, in the order validate_paths visits them
PathFields ==
    << <<"push", "paths">>, <<"push", "paths-ignore">>,
       <<"pull_request", "paths">>, <<"pull_request", "paths-ignore">> >>

FieldValue(doc, f) == Index(Index(Index(doc, "on"), f[1]), f[2])
FieldPointer(f) == "/on/" \o f[1] \o "/" \o f[2]

\* validate_paths visiting the pull_request fields before the push fields
validate_paths_pull_request_first(doc, ps) ==
    validate_globs(FieldValue(doc, PathFields[2]), "/on/push/paths-ignore",
      validate_globs(FieldValue(doc, PathFields[1]), "/on/push/paths",
        validate_globs(FieldValue(doc, PathFields[4]), "/on/pull_request/paths-ignore",
          validate_globs(FieldValue(doc, PathFields[3]), "/on/pull_request/paths", ps))))

validate_paths(doc, ps) ==
    validate_globs(FieldValue(doc, PathFields[4]), "/on/pull_request/paths-ignore",
      validate_globs(FieldValue(doc, PathFields[3]), "/on/pull_request/paths",
        validate_globs(FieldValue(doc, PathFields[2]), "/on/push/paths-ignore",
          validate_globs(FieldValue(doc, PathFields[1]), "/on/push/paths", ps))))

is_invalid_dependency(jobs, need_str) == ~contains_key(jobs, need_str)

handle_unresolved_job(job_name, needs_str, ps) ==
    Pushed(ps, UnresolvedJobError(job_name, needs_str))

RECURSIVE for_needs_str(_, _, _)
for_needs_str(job_name, bad, ps) ==
    IF bad = <<>> THEN ps
    ELSE for_needs_str(job_name, Tail(bad), handle_unresolved_job(job_name, Head(bad).s, ps))

\* job_needs without the single-string form of `needs`
job_needs_array_only(jobs, job_name, needs, ps) ==
    IF is_array(needs)
    THEN for_needs_str(job_name,
             SelectSeq(SelectSeq(needs.a, is_str),
                       LAMBDA v : is_invalid_dependency(jobs, v.s)),
             ps)
    ELSE ps

\* the body of for (job_name, job) in jobs.iter(), needs being job["needs"]
job_needs(jobs, job_name, needs, ps) ==
    IF is_str(needs)
    THEN (IF is_invalid_dependency(jobs, needs.s)
          THEN handle_unresolved_job(job_name, needs.s, ps)
          ELSE ps)
    ELSE IF is_array(needs)
    THEN for_needs_str(job_name,
             SelectSeq(SelectSeq(needs.a, is_str),
                       LAMBDA v : is_invalid_dependency(jobs, v.s)),
             ps)
    ELSE ps

RECURSIVE for_job_in_jobs(_, _, _)
for_job_in_jobs(jobs, i, ps) ==
    IF i > Len(jobs) THEN ps
    ELSE for_job_in_jobs(jobs, i + 1, job_needs(jobs, jobs[i][1], Index(jobs[i][2], "needs"), ps))

validate_job_needs(doc, ps) ==
    IF ps.panic THEN ps
    ELSE IF is_object(Index(doc, "jobs"))
    THEN for_job_in_jobs(Index(doc, "jobs").o, 1, ps)
    ELSE ps

(***************************************************************************)
(* The schema conformance adapter.  An engine error (Box<dyn ValicoError>) *)
(* is [kind, code, path, title, detail, states]: kind is its concrete      *)
(* type, states the branch sub-states of an AnyOf / OneOf.  An engine      *)
(* state is [errors].                                                      *)
(***************************************************************************)
\* the concrete types the downcast chain tries, in its order
KnownKinds ==
    <<"WrongType", "MultipleOf", "Maximum", "Minimum", "MaxLength", "MinLength",
      "Pattern", "MaxItems", "MinItems", "UniqueItems", "Items", "MaxProperties",
      "MinProperties", "Required", "Properties", "Enum", "AnyOf", "OneOf", "Const",
      "Contains", "ContainsMinMax", "Not", "DivergentDefaults", "Format",
      "Unevaluated">>

downcast(err, kind) == err.kind = kind

\* ValidationErrorMetadata::from_valico_error, From<&BoxedValicoError>
from_valico_error(err) ==
    [code |-> err.code, path |-> err.path, title |-> err.title,
     detail |-> IF is_some(err.detail) THEN Some(unwrap(err.detail)) ELSE None]

RECURSIVE FromValicoError(_)
RECURSIVE FromValicoState(_)

\* BranchStates keeping only the branches that hold an error
BranchStates_failed_only(err) ==
    SelectSeq([i \in 1..Len(err.states) |-> FromValicoState(err.states[i])],
              LAMBDA st : st.errors # <<>>)

\* err.states.iter().map(|state| ValidationState::from(state)).collect()
BranchStates(err) ==
    [i \in 1..Len(err.states) |-> FromValicoState(err.states[i])]

\* impl From<&BoxedValicoError> for ValidationError
FromValicoError(err) ==
    IF downcast(err, "AnyOf") \/ downcast(err, "OneOf")
    THEN [variant |-> err.kind \o "SchemaError",
          states |-> BranchStates(err),
          meta |-> from_valico_error(err)]
    ELSE IF \E k \in 1..Len(KnownKinds) : downcast(err, KnownKinds[k])
    THEN [variant |-> err.kind \o "SchemaError", meta |-> from_valico_error(err)]
    ELSE [variant |-> "UnknownSchemaError", meta |-> from_valico_error(err)]

\* ConvertedErrors dropping the errors of no known kind
ConvertedErrors_known_only(engine_state) ==
    SelectSeq([i \in 1..Len(engine_state.errors) |-> FromValicoError(engine_state.errors[i])],
              LAMBDA e : e.variant # "UnknownSchemaError")

\* state.errors.iter().map(|err| err.into()).collect()
ConvertedErrors(engine_state) ==
    [i \in 1..Len(engine_state.errors) |-> FromValicoError(engine_state.errors[i])]

\* impl From<valico::json_schema::ValidationState> for ValidationState
FromValicoState(engine_state) ==
    ValidationState(None, None, ConvertedErrors(engine_state))

\* validator.validate(doc), and the dump of a state that is not valid
validate_with_schema(doc, schema, ps) ==
    [engine |-> valico,
     ps |-> IF valico.errors # <<>>
            THEN Logged(ps, "Validation failed: " \o schema)
            ELSE ps]

validate_as_action(doc, ps) == validate_with_schema(doc, "github-action.json", ps)
validate_as_workflow(doc, ps) == validate_with_schema(doc, "github-workflow.json", ps)

(***************************************************************************)
(* run.  A source text is represented by what serde_yaml makes of it:      *)
(* [ok |-> TRUE, doc] or [ok |-> FALSE, err] with err = [msg, location].   *)
(* run yields [panic, state, log]: state is None when the call panicked.   *)
(***************************************************************************)
serde_yaml_from_str(src) == src

\* workflow_passes with the two calls swapped
workflow_passes_jobs_first(doc, ps) == validate_paths(doc, validate_job_needs(doc, ps))

\* the two semantic passes of the Workflow branch, in program order
workflow_passes(doc, ps) == validate_job_needs(doc, validate_paths(doc, ps))

\* the pass state a branch starts from: no errors, the verbose notice
Treating(cfg, file_name, what) ==
    [panic |-> FALSE, errors |-> <<>>,
     log |-> IF cfg.verbose THEN <<"Treating " \o file_name \o " as " \o what \o " definition">>
             ELSE <<>>]

\* the engine state a schema pass returned, as a ValidationState (.into())
Adapted(v) == [v.ps EXCEPT !.errors = FromValicoState(v.engine).errors]

\* validate_doc running the semantic passes for either kind
validate_doc_any_kind(cfg, doc, file_name) ==
    IF cfg.action_type = "Action"
    THEN workflow_passes(doc, Adapted(validate_as_action(doc, Treating(cfg, file_name, "an Action"))))
    ELSE workflow_passes(doc, Adapted(validate_as_workflow(doc, Treating(cfg, file_name, "a Workflow"))))

\* the branch of match config.action_type for a document that parsed
validate_doc(cfg, doc, file_name) ==
    IF cfg.action_type = "Action"
    THEN Adapted(validate_as_action(doc, Treating(cfg, file_name, "an Action")))
    ELSE workflow_passes(doc, Adapted(validate_as_workflow(doc, Treating(cfg, file_name, "a Workflow"))))

\* Ok(doc) => the state the branch yields, None when a pass panicked
passes_state(ps) ==
    [panic |-> ps.panic, log |-> ps.log,
     state |-> IF ps.panic THEN None ELSE Some(ValidationState(None, None, ps.errors))]

\* parse_error_state going on with a null document instead of stopping
parse_error_state_going_on(cfg, file_name, err) ==
    passes_state(validate_doc(cfg, Null, file_name))

\* Err(err) => ValidationState { ... errors: vec![err.into()] }
parse_error_state(cfg, file_name, err) ==
    [panic |-> FALSE, log |-> <<>>,
     state |-> Some(ValidationState(Some(cfg.action_type), Some(file_name),
                                    <<ParseError(err)>>))]

match_doc(cfg, file_name, doc) ==
    IF ~doc.ok
    THEN parse_error_state(cfg, file_name, doc.err)
    ELSE passes_state(validate_doc(cfg, doc.doc, file_name))

\* config.file_name.unwrap_or("file")
unwrap_or(o, default) == IF is_some(o) THEN unwrap(o) ELSE default

\* let mut state = match doc { ... }: the state before it is stamped
seed(cfg) == match_doc(cfg, unwrap_or(cfg.file_name, "file"), serde_yaml_from_str(cfg.src))

\* stamp filling in only what the state does not carry yet: the file_path
\* the parse-failure branch stored stays
stamp_unless_set(cfg, st) ==
    [st EXCEPT !.action_type = Some(cfg.action_type),
               !.file_path = IF is_some(@) THEN @ ELSE cfg.file_path]

\* state.action_type = ...; state.file_path = ...
stamp(cfg, st) ==
    [st EXCEPT !.action_type = Some(cfg.action_type), !.file_path = cfg.file_path]

stamped(cfg, s) ==
    IF s.panic THEN s ELSE [s EXCEPT !.state = Some(stamp(cfg, unwrap(s.state)))]

run(cfg) == stamped(cfg, seed(cfg))

(***************************************************************************)
(* Paths.  A PathBuf is the sequence of its components, each an OsStr      *)
(* [name, utf8]: utf8 is FALSE when the bytes are no valid UTF-8.          *)
(***************************************************************************)
OsStr(name) == [name |-> name, utf8 |-> TRUE]
NonUtf8(name) == [name |-> name, utf8 |-> FALSE]

\* OsStr::to_str
os_to_str(c) == IF c.utf8 THEN Some(c.name) ELSE None

\* Path::file_name: None when the path is empty, the root, or ends in `..`
path_file_name(path) ==
    IF path = <<>> THEN None
    ELSE IF path[Len(path)].name \in {"..", "/"} THEN None
    ELSE Some(path[Len(path)])

RECURSIVE JoinPath(_)
JoinPath(path) ==
    IF Len(path) = 1 THEN path[1].name
    ELSE path[1].name \o "/" \o JoinPath(Tail(path))

\* Path::to_str
path_to_str(path) ==
    IF path = <<>> THEN Some("")
    ELSE IF \A i \in 1..Len(path) : path[i].utf8 THEN Some(JoinPath(path))
    ELSE None

(***************************************************************************)
(* The entry points.                                                       *)
(***************************************************************************)
\* select_action_type knowing action.yml only
select_action_type_yml_only(file_name) ==
    IF file_name = Some("action.yml") THEN "Action" ELSE "Workflow"

\* action_type: match file_name { Some("action.yml") | Some("action.yaml") => ... }
select_action_type(file_name) ==
    IF file_name = Some("action.yml") \/ file_name = Some("action.yaml")
    THEN "Action"
    ELSE "Workflow"

CliResult(res, err, cfg, st, lg) ==
    [result |-> res, err |-> err, run_config |-> cfg, state |-> st, log |-> lg]

\* run_cli from `let state = run(&run_config)` on, r being what run yields
cli_verdict(cfg, r) ==
    IF r.panic THEN CliResult("Panic", "", Some(cfg), None, r.log)
    ELSE IF is_valid(unwrap(r.state)) THEN CliResult("Ok", "", Some(cfg), r.state, r.log)
    ELSE CliResult("Err", "validation failed", Some(cfg), r.state,
                   Append(r.log, "Validation failed: ValidationState"))

cli_run(cfg) == cli_verdict(cfg, run(cfg))

\* RunConfig { file_path, file_name, action_type, src, verbose }
cli_run_config(cli, file_name, text) ==
    [file_path |-> path_to_str(cli.src),
     file_name |-> file_name,
     action_type |-> select_action_type(file_name),
     src |-> text,
     verbose |-> cli.verbose]

\* run_cli once file_name() is known: os_name is its Option<&OsStr>
cli_with_name(cli, os_name) ==
    IF ~is_some(os_name)
    THEN CliResult("Err", "Unable to derive file name from src!", None, None, <<>>)
    ELSE IF ~is_some(file)
    THEN CliResult("Err", "No such file or directory (os error 2)", None, None, <<>>)
    ELSE cli_run(cli_run_config(cli, os_to_str(unwrap(os_name)), unwrap(file)))

\* run_cli: [result, err, run_config, state, log]
run_cli(cli) == cli_with_name(cli, path_file_name(cli.src))

\* impl From<&JsConfig> for RunConfig
into_run_config(js) ==
    [file_path |-> None, file_name |-> None, action_type |-> js.action_type,
     src |-> js.src, verbose |-> js.verbose]

\* run_js from `let state = run(&run_config)` on
js_value(cfg, r) ==
    [result |-> IF r.panic THEN "Panic" ELSE "JsValue",
     run_config |-> Some(cfg), state |-> r.state, log |-> r.log]

js_run(cfg) == js_value(cfg, run(cfg))

\* run_js: the serialized state, unless run panicked
run_js(js) == js_run(into_run_config(js))

\* main's exit code after run_cli: the Err branch prints
\* config.src.to_str().unwrap() before process::exit(1)
main_exit_code(cli, res) ==
    IF res = "Ok" THEN 0
    ELSE IF res = "Err" /\ is_some(path_to_str(cli.src)) THEN 1
    ELSE 101

(***************************************************************************)
(* The inputs: documents, engine verdicts, paths.                          *)
(***************************************************************************)
Absent == [t |-> "absent"]     \* a key the builders below leave out

Present(pairs) == SelectSeq(pairs, LAMBDA p : p[2] # Absent)
MkObj(pairs) == IF Present(pairs) = <<>> THEN Absent ELSE Obj(Present(pairs))

GlobEntries == {Str("src/*.rs"), Str("no/such/file/*.txt"), Str("[unterminated"), Num(1)}
FieldChoices ==
    {Absent, Null, Str("src/**")} \cup {Arr(a) : a \in SeqsUpTo(GlobEntries, MaxGlobs)}

\* `on` with the four trigger-path fields set to v[1..4]
MkOn(v) ==
    MkObj(<< <<"push", MkObj(<< <<"paths", v[1]>>, <<"paths-ignore", v[2]>> >>)>>,
             <<"pull_request", MkObj(<< <<"paths", v[3]>>, <<"paths-ignore", v[4]>> >>)>> >>)

RichOn ==
    {MkOn([j \in 1..4 |-> IF j = f THEN v ELSE Absent]) : f \in 1..4, v \in FieldChoices}
    \cup {MkOn(v) : v \in [1..4 -> {Arr(<<Str("no/such/file/*.txt")>>), Arr(<<Str("[unterminated")>>)}]}
    \cup {Str("push"), Obj(<< <<"push", Null>> >>)}
BaseOn == {Absent, MkOn(<<Arr(<<Str("src/*.rs"), Str("a/***")>>), Absent, Absent, Arr(<<Str("docs/**")>>)>>)}

NeedEntries == {Str("a"), Str("z"), Str("y"), Num(1)}
NeedsChoices ==
    {Absent, Str("a"), Str("b"), Str("z")} \cup {Arr(a) : a \in SeqsUpTo(NeedEntries, MaxNeeds)}
MkJob(needs) == Obj(Present(<< <<"runs-on", Str("ubuntu-latest")>>, <<"needs", needs>> >>))

SpecExampleJobs ==
    Obj(<< <<"a", Obj(<<>>)>>, <<"b", MkJob(Str("a"))>>,
           <<"c", MkJob(Arr(<<Str("a"), Str("z")>>))>> >>)
RichJobs ==
    {Obj(<< <<"a", MkJob(na)>>, <<"b", MkJob(nb)>> >>) :
        na \in {Absent, Str("a"), Str("b"), Str("z")}, nb \in NeedsChoices}
    \cup {SpecExampleJobs, Str("none"),
          Obj(<< <<"a", Null>>, <<"b", MkJob(Arr(<<Str("a"), Str("b"), Str("q")>>))>> >>)}
BaseJobs == {Absent, Obj(<< <<"build", MkJob(Absent)>>, <<"test", MkJob(Arr(<<Str("build"), Str("lint")>>))>> >>)}

\* a document with failing patterns in three fields, two of them with two
\* differing failures, and two jobs with differing dangling references
ManyGlobsOn ==
    MkOn(<<Arr(<<Str("[unterminated"), Str("no/such/file/*.txt")>>),
           Arr(<<Str("docs/none/**")>>),
           Absent,
           Arr(<<Str("no/such/file/*.txt"), Str("a/***")>>)>>)
ManyNeedsJobs ==
    Obj(<< <<"a", MkJob(Arr(<<Str("z"), Str("b"), Str("y")>>))>>,
           <<"b", MkJob(Arr(<<Str("y"), Str("z")>>))>>,
           <<"c", MkJob(Str("x"))>> >>)

MkDoc(on, jobs) == Obj(Present(<< <<"name", Str("ci")>>, <<"on", on>>, <<"jobs", jobs>> >>))

\* a trigger-path field the Workflow schema rejects: present, not null, and
\* no sequence of strings
Malformed(doc) ==
    \E f \in 1..4 :
        LET v == FieldValue(doc, PathFields[f]) IN
        /\ ~is_null(v)
        /\ (is_array(v) => \E i \in 1..Len(v.a) : ~is_str(v.a[i]))

EngineError(kind, code, path, detail, states) ==
    [kind |-> kind, code |-> code, path |-> path, title |-> kind \o " violated",
     detail |-> detail, states |-> states]
EngineState(errors) == [errors |-> errors]

WrongTypeAtPaths == EngineError("WrongType", "wrong_type", "/on/push/paths", Some("The value must be array"), <<>>)
RequiredRunsOn == EngineError("Required", "required", "/jobs/a/runs-on", None, <<>>)
CustomKeyword == EngineError("Conditional", "conditional", "/jobs/a", Some("if/then/else"), <<>>)
EnumShell == EngineError("Enum", "enum", "/defaults/run/shell", None, <<>>)

BranchSamples ==
    {EngineState(<<>>), EngineState(<<WrongTypeAtPaths>>),
     EngineState(<<RequiredRunsOn,
                   EngineError("OneOf", "one_of", "/on", None,
                               <<EngineState(<<EnumShell>>), EngineState(<<CustomKeyword, EnumShell>>)>>)>>)}
Combinators ==
    {EngineError(k[1], k[2], "/on", Some(k[1] \o " failed"), bs) :
        k \in {<<"AnyOf", "any_of">>, <<"OneOf", "one_of">>},
        bs \in SeqsUpTo(BranchSamples, MaxBranches)}
ErrorSamples ==
    {WrongTypeAtPaths, RequiredRunsOn, CustomKeyword,
     EngineError("AnyOf", "any_of", "/jobs/a", None,
                 <<EngineState(<<RequiredRunsOn>>), EngineState(<<WrongTypeAtPaths, EnumShell>>)>>)}
RichEngine ==
    {EngineState(e) : e \in SeqsUpTo(ErrorSamples, MaxErrors)}
    \cup {EngineState(<<c>>) : c \in Combinators}
    \cup {EngineState(<<EngineError(KnownKinds[k], "code", "/", None, <<>>)>>) : k \in 1..Len(KnownKinds)}
BaseEngine == {EngineState(<<>>), EngineState(<<RequiredRunsOn>>)}

EnginesFor(doc) ==
    IF Malformed(doc) THEN {EngineState(<<WrongTypeAtPaths>>)} ELSE BaseEngine

YamlOk(doc) == [ok |-> TRUE, doc |-> doc]
YamlErr(msg, location) == [ok |-> FALSE, err |-> [msg |-> msg, location |-> location]]

ParseFailures ==
    {YamlErr("mapping values are not allowed in this context",
             Some([index |-> 12, line |-> 2, column |-> 5])),
     YamlErr("EOF while parsing a value", None)}

World(y, v) == [yaml |-> y, valico |-> v]

SmallWorlds ==
    {World(y, EngineState(<<>>)) : y \in ParseFailures}
    \cup {World(YamlOk(MkDoc(on, jobs)), v) : on \in BaseOn, jobs \in BaseJobs, v \in BaseEngine}
    \cup {World(YamlOk(MkDoc(ManyGlobsOn, ManyNeedsJobs)), v) : v \in BaseEngine}

Worlds ==
    SmallWorlds
    \cup UNION {{World(YamlOk(MkDoc(on, jobs)), v) :
                    jobs \in BaseJobs, v \in EnginesFor(MkDoc(on, Absent))} : on \in RichOn}
    \cup {World(YamlOk(MkDoc(on, jobs)), v) : on \in BaseOn, jobs \in RichJobs, v \in BaseEngine}
    \cup {World(YamlOk(MkDoc(on, jobs)), v) : on \in BaseOn, jobs \in BaseJobs, v \in RichEngine}

KeyPaths ==
    {<<OsStr(".github"), OsStr("workflows"), OsStr("ci.yml")>>, <<OsStr("action.yml")>>}
CliPaths ==
    KeyPaths \cup
    {<<OsStr("action.yaml")>>,
     <<OsStr("pkg"), OsStr("action.yml")>>,
     <<OsStr("action.yml"), OsStr("ci.yaml")>>,
     <<OsStr("Action.yml")>>,
     <<OsStr("action.yml.bak")>>,
     <<OsStr("action.yml"), OsStr("..")>>,
     <<OsStr("/")>>,
     <<>>,
     <<NonUtf8("action<FF>.yml")>>,
     <<NonUtf8("dir<FF>"), OsStr("action.yml")>>,
     <<NonUtf8("dir<FF>"), OsStr("ci.yml")>>}

(***************************************************************************)
(* The state machine: a build and a document, then one call of an entry    *)
(* point.                                                                  *)
(***************************************************************************)
Init ==
    /\ feature_js \in BOOLEAN
    /\ \E w \in Worlds : yaml = w.yaml /\ valico = w.valico
    /\ pc = "start"
    /\ config = None
    /\ file = None
    /\ run_config = None
    /\ state = None
    /\ result = "none"
    /\ exit_code = -1
    /\ log = <<>>

\* main: CliConfig::parse(); the path names a readable file or not
Main(path, verbose, readable) ==
    /\ pc = "start"
    /\ (path \in KeyPaths /\ ~verbose /\ readable) \/ World(yaml, valico) \in SmallWorlds
    /\ config' = Some([entry |-> "cli", src |-> path, verbose |-> verbose])
    /\ file' = IF readable THEN Some(yaml) ELSE None
    /\ pc' = "cli"
    /\ UNCHANGED <<feature_js, yaml, valico, run_config, state, result, exit_code, log>>

Returned(r, at) ==
    /\ result' = r.result
    /\ run_config' = r.run_config
    /\ state' = r.state
    /\ log' = log \o r.log
    /\ pc' = IF r.result = "Panic" /\ at = "js_returned" THEN "js_panicked" ELSE at

\* main: action_validator::run_cli(&config)
RunCli ==
    /\ pc = "cli"
    /\ Returned(run_cli(unwrap(config)), "cli_returned")
    /\ UNCHANGED <<feature_js, yaml, valico, config, file, exit_code>>

Exited(code) ==
    /\ exit_code' = code
    /\ log' = IF code = 1
              THEN Append(log, "Fatal error validating " \o unwrap(path_to_str(unwrap(config).src)))
              ELSE log

\* main: fall off the end, process::exit(1), or die of a panic
MainExit ==
    /\ pc = "cli_returned"
    /\ Exited(main_exit_code(unwrap(config), result))
    /\ pc' = "exited"
    /\ UNCHANGED <<feature_js, yaml, valico, config, file, run_config, state, result>>

JsConfig(action_type) == [action_type |-> action_type, src |-> yaml, verbose |-> FALSE]

\* the binding call behind validateAction / validateWorkflow
Binding(js) ==
    /\ pc = "start"
    /\ config' = Some([entry |-> "js", action_type |-> js.action_type,
                       src |-> js.src, verbose |-> js.verbose])
    /\ Returned(run_js(js), "js_returned")
    /\ UNCHANGED <<feature_js, yaml, valico, file, exit_code>>

validate_action == Binding(JsConfig("Action"))
validate_workflow == Binding(JsConfig("Workflow"))

Next ==
    \/ \E path \in CliPaths, verbose \in BOOLEAN, readable \in BOOLEAN :
           Main(path, verbose, readable)
    \/ RunCli
    \/ MainExit
    \/ validate_action
    \/ validate_workflow

Spec == Init /\ [][Next]_vars

(***************************************************************************)
(* Properties.  Ran: an entry point built a RunConfig and called run.      *)
(* Got: run returned a state (it did not panic).                           *)
(***************************************************************************)
Ran == is_some(run_config)
Cfg == unwrap(run_config)
Got == is_some(state)
Errors == unwrap(state).errors
Doc == Cfg.src.doc
Parsed == Ran /\ Cfg.src.ok
IsCli == is_some(config) /\ unwrap(config).entry = "cli"

SemanticVariants == {"UnresolvedJobError", "InvalidGlobError", "NoFilesMatchingGlobError"}
GlobVariants == {"InvalidGlobError", "NoFilesMatchingGlobError"}

\* the positions of Errors that hold an error of one of the variants vs
At(vs) == {i \in 1..Len(Errors) : Errors[i].variant \in vs}

\* ---------------------------------------------------------------- C1
PassLines ==
    {"Validation failed: github-action.json", "Validation failed: github-workflow.json"}
    \cup {"WARNING: Glob validation is not yet supported. Glob at " \o FieldPointer(PathFields[f])
          \o " will not be validated." : f \in 1..4}

\* C1: when the text fails to parse, run returns a state whose errors are
\* exactly one ParseError built from the parser's error, and no pass ran:
\* no other entry is present and no pass wrote a diagnostic; for either kind.
C1_ParseFailureYieldsOneParseError ==
    (Ran /\ ~Cfg.src.ok) =>
        /\ Got
        /\ result # "Panic"
        /\ Len(Errors) = 1
        /\ Errors[1].variant = "ParseError"
        /\ Errors[1].meta.code = "parse_error"
        /\ Errors[1].meta.detail = Cfg.src.err.msg
        /\ Errors[1].meta.location = Cfg.src.err.location
        /\ At(SemanticVariants) = {}
        /\ \A i \in 1..Len(log) : log[i] \notin PassLines

C1_Witness ==
    /\ Ran /\ ~Cfg.src.ok /\ Got
    /\ Cfg.action_type = "Workflow"
    /\ is_some(Cfg.src.err.location)
    /\ pc = "exited"

\* ---------------------------------------------------------------- C2
\* the pass an error of the final list comes from, in the order the claim
\* states (schema, job resolution, glob) and in the order of the calls in run
\* (schema, glob, job resolution)
ClaimedRank(e) ==
    IF e.variant = "UnresolvedJobError" THEN 1
    ELSE IF e.variant \in GlobVariants THEN 2 ELSE 0
CallRank(e) ==
    IF e.variant \in GlobVariants THEN 1
    ELSE IF e.variant = "UnresolvedJobError" THEN 2 ELSE 0

WorkflowGot == Parsed /\ Got /\ Cfg.action_type = "Workflow"

\* C2 as stated: schema errors, then UnresolvedJob errors, then glob errors
C2_Original_SchemaThenJobsThenGlobs ==
    WorkflowGot =>
        \A i, j \in 1..Len(Errors) : i < j => ClaimedRank(Errors[i]) <= ClaimedRank(Errors[j])

\* C2 (amended): for every Workflow document that parses, the final errors
\* are ordered by pass in the order run calls them: all schema errors, then
\* all glob errors, then all UnresolvedJob errors.
C2_SchemaThenGlobsThenJobs ==
    WorkflowGot =>
        \A i, j \in 1..Len(Errors) : i < j => CallRank(Errors[i]) <= CallRank(Errors[j])

C2_Witness ==
    /\ WorkflowGot
    /\ At(GlobVariants) # {}
    /\ At({"UnresolvedJobError"}) # {}
    /\ At(SemanticVariants) # 1..Len(Errors)

\* ---------------------------------------------------------------- C3
JobsMap == IF is_object(Index(Doc, "jobs")) THEN Index(Doc, "jobs").o ELSE <<>>
JobKeys == {JobsMap[i][1] : i \in 1..Len(JobsMap)}

\* the references of job i: its `needs` string, or the entries of its
\* `needs` sequence
Refs(i) ==
    LET needs == Index(JobsMap[i][2], "needs") IN
    IF needs.t = "str" THEN <<needs>>
    ELSE IF needs.t = "arr" THEN needs.a ELSE <<>>

\* the (job, position) pairs whose reference is a string naming no job
Dangling ==
    {p \in UNION {{<<i, k>> : k \in 1..Len(Refs(i))} : i \in 1..Len(JobsMap)} :
        /\ Refs(p[1])[p[2]].t = "str"
        /\ Refs(p[1])[p[2]].s \notin JobKeys}

\* C3: the UnresolvedJob errors are exactly one per (job, reference) pair
\* whose reference is a string that is no key of jobs, counted with
\* multiplicity, at /jobs/<job>/needs and naming the missing job; references
\* to existing jobs, absent needs and non-string entries yield none.
C3_OneUnresolvedJobPerDanglingNeed ==
    WorkflowGot =>
        /\ Cardinality(At({"UnresolvedJobError"})) = Cardinality(Dangling)
        /\ \A p \in Dangling :
               Cardinality({n \in At({"UnresolvedJobError"}) :
                   /\ Errors[n].meta.path = "/jobs/" \o JobsMap[p[1]][1] \o "/needs"
                   /\ Errors[n].meta.detail = Some("unresolved job " \o Refs(p[1])[p[2]].s)})
               = Cardinality({q \in Dangling :
                   q[1] = p[1] /\ Refs(q[1])[q[2]].s = Refs(p[1])[p[2]].s})
        /\ \A n \in At({"UnresolvedJobError"}) : Errors[n].meta.code = "unresolved_job"
        /\ Index(Doc, "jobs") = SpecExampleJobs =>
               /\ Cardinality(At({"UnresolvedJobError"})) = 1
               /\ \A n \in At({"UnresolvedJobError"}) :
                      /\ Errors[n].meta.path = "/jobs/c/needs"
                      /\ Errors[n].meta.detail = Some("unresolved job z")

C3_Witness ==
    /\ WorkflowGot
    /\ Index(Doc, "jobs") =
           Obj(<< <<"a", MkJob(Str("b"))>>, <<"b", MkJob(Arr(<<Str("z"), Str("z")>>))>> >>)
    /\ Cardinality(At({"UnresolvedJobError"})) = 2

\* ---------------------------------------------------------------- C4
Pointer(f) == FieldPointer(PathFields[f])
Field(f) == FieldValue(Doc, PathFields[f])
Patterns(f) == IF Field(f).t = "arr" THEN Field(f).a ELSE <<>>

\* pattern k of field f is a string that does not compile
FailsToCompile(f, k) ==
    Patterns(f)[k].t = "str" /\ PatternError(Patterns(f)[k].s) # None
\* pattern k of field f compiles and matches no entry of the working directory
MatchesNothing(f, k) ==
    /\ Patterns(f)[k].t = "str"
    /\ PatternError(Patterns(f)[k].s) = None
    /\ PatternMatches(Patterns(f)[k].s) \cap CwdFiles = {}

\* C4: in the filesystem-backed build, a trigger-path field that is absent or
\* null yields no error; otherwise the field yields one InvalidGlob error per
\* pattern that fails to compile, one NoFilesMatchingGlob error per pattern
\* that compiles and matches nothing, and nothing for a pattern that matches;
\* every glob error carries the pointer of its field.
C4_GlobErrorsPerPattern ==
    (WorkflowGot /\ ~feature_js) =>
        /\ \A n \in At(GlobVariants) : \E f \in 1..4 : Errors[n].meta.path = Pointer(f)
        /\ \A f \in 1..4 :
            /\ Field(f) = Null =>
                   {n \in At(GlobVariants) : Errors[n].meta.path = Pointer(f)} = {}
            /\ Cardinality({n \in At({"InvalidGlobError"}) : Errors[n].meta.path = Pointer(f)})
               = Cardinality({k \in 1..Len(Patterns(f)) : FailsToCompile(f, k)})
            /\ Cardinality({n \in At({"NoFilesMatchingGlobError"}) : Errors[n].meta.path = Pointer(f)})
               = Cardinality({k \in 1..Len(Patterns(f)) : MatchesNothing(f, k)})

C4_Witness ==
    /\ WorkflowGot /\ ~feature_js
    /\ Field(1) = Arr(<<Str("src/*.rs"), Str("a/***")>>)
    /\ Field(2) = Null
    /\ Field(4) = Arr(<<Str("docs/**")>>)
    /\ Cardinality(At({"InvalidGlobError"})) = 1
    /\ Cardinality(At({"NoFilesMatchingGlobError"})) = 1

\* ---------------------------------------------------------------- C5
\* C5: for every Workflow document that parses, run completes its passes and
\* returns a ValidationState; it never panics.
C5_ParsedWorkflowAlwaysReturns ==
    (Parsed /\ Cfg.action_type = "Workflow") => (Got /\ result # "Panic")

\* ---------------------------------------------------------------- C6
\* C6: run_cli returns Ok, and the process exits with 0, exactly when the
\* file name is derivable, the file is readable and the state run returned
\* has no errors; in every other case it returns Err and the process exits
\* with 1.
C6_ExitZeroIffValidElseOne ==
    pc = "exited" =>
        /\ result \in {"Ok", "Err"}
        /\ result = "Ok" <=>
               /\ is_some(path_file_name(unwrap(config).src))
               /\ is_some(file)
               /\ Got
               /\ Errors = <<>>
        /\ exit_code = IF result = "Ok" THEN 0 ELSE 1

\* ---------------------------------------------------------------- C7
\* C7: a run of kind Action ends with no UnresolvedJob, InvalidGlob or
\* NoFilesMatchingGlob error, whatever `jobs` and `on` of the document hold.
C7_ActionHasNoSemanticErrors ==
    (Ran /\ Got /\ Cfg.action_type = "Action") => At(SemanticVariants) = {}

C7_Witness ==
    /\ Parsed /\ Got /\ Cfg.action_type = "Action"
    /\ ~feature_js
    /\ Dangling # {}
    /\ \E k \in 1..Len(Patterns(4)) : MatchesNothing(4, k)
    /\ \E k \in 1..Len(Patterns(1)) : FailsToCompile(1, k)

\* ---------------------------------------------------------------- C8
RECURSIVE Mirrors(_, _)
\* e is the normalized form of the engine's anyOf / oneOf error eng: as many
\* states as eng has branch sub-states, in order, each a ValidationState of
\* its own holding that branch's errors and nothing else, recursively
Mirrors(e, eng) ==
    eng.kind \in {"AnyOf", "OneOf"} =>
        /\ e.variant = eng.kind \o "SchemaError"
        /\ Len(e.states) = Len(eng.states)
        /\ \A j \in 1..Len(eng.states) :
            /\ e.states[j].action_type = None
            /\ e.states[j].file_path = None
            /\ Len(e.states[j].errors) = Len(eng.states[j].errors)
            /\ \A k \in 1..Len(eng.states[j].errors) :
                /\ e.states[j].errors[k].meta.code = eng.states[j].errors[k].code
                /\ e.states[j].errors[k].meta.path = eng.states[j].errors[k].path
                /\ Mirrors(e.states[j].errors[k], eng.states[j].errors[k])

\* C8: an anyOf / oneOf failure of the engine becomes one entry of the parent
\* list, carrying one nested state per branch sub-state, in order, each
\* translated recursively and holding only that branch's errors; the parent
\* list holds no branch error.
C8_CombinatorKeepsBranchStates ==
    (Parsed /\ Got) =>
        /\ Cardinality(1..Len(Errors) \ At(SemanticVariants)) = Len(valico.errors)
        /\ \A i \in 1..Len(valico.errors) : Mirrors(Errors[i], valico.errors[i])

C8_Witness ==
    /\ Parsed /\ Got
    /\ \E i \in 1..Len(Errors) :
        /\ Errors[i].variant = "AnyOfSchemaError"
        /\ Len(Errors[i].states) = 2
        /\ Len(Errors[i].states[1].errors) = 1
        /\ Len(Errors[i].states[2].errors) = 2
        /\ Errors[i].states[2].errors[2].variant = "OneOfSchemaError"
        /\ Len(Errors[i].states[2].errors[2].states) = 2

\* ---------------------------------------------------------------- C9
KnownKindSet == {KnownKinds[k] : k \in 1..Len(KnownKinds)}

\* C9: the adapter turns an engine state of n errors into n schema errors in
\* the same order, each with the engine error's code, path, title and detail;
\* an engine error of no known kind becomes an UnknownSchemaError with that
\* metadata.
C9_AdapterKeepsEveryEngineError ==
    (Parsed /\ Got) =>
        /\ Cardinality(1..Len(Errors) \ At(SemanticVariants)) = Len(valico.errors)
        /\ Len(Errors) >= Len(valico.errors)
        /\ \A i \in 1..Len(valico.errors) :
            /\ Errors[i].meta.code = valico.errors[i].code
            /\ Errors[i].meta.path = valico.errors[i].path
            /\ Errors[i].meta.title = valico.errors[i].title
            /\ Errors[i].meta.detail = valico.errors[i].detail
            /\ Errors[i].variant \notin SemanticVariants \cup {"ParseError"}
            /\ valico.errors[i].kind \notin KnownKindSet =>
                   Errors[i].variant = "UnknownSchemaError"

C9_Witness ==
    /\ Parsed /\ Got
    /\ Len(valico.errors) = 2
    /\ valico.errors[1].kind = "Required"
    /\ valico.errors[2].kind = "Conditional"
    /\ Errors[2].variant = "UnknownSchemaError"
    /\ Errors[2].meta.detail = Some("if/then/else")

\* ---------------------------------------------------------------- C10
CliPath == unwrap(config).src
LastName == CliPath[Len(CliPath)]

\* C10: in the CLI the kind is Action exactly when the file name component is
\* the text action.yml or action.yaml, and Workflow for any other file name
\* that can be derived, one that is no valid UTF-8 included; a derivable name
\* of a readable file always selects a kind.
C10_ActionIffNamedActionYml ==
    (IsCli /\ pc \in {"cli_returned", "exited"}) =>
        /\ Ran => is_some(path_file_name(CliPath))
        /\ (is_some(path_file_name(CliPath)) /\ is_some(file)) =>
            /\ Ran
            /\ Cfg.action_type \in {"Action", "Workflow"}
            /\ Cfg.action_type = "Action" <=>
                   (LastName.utf8 /\ LastName.name \in {"action.yml", "action.yaml"})

C10_Witness ==
    /\ IsCli /\ Ran
    /\ ~LastName.utf8
    /\ Cfg.action_type = "Workflow"

\* ---------------------------------------------------------------- C11
\* the failing patterns of field f (no string entry fails: it panics), and
\* the positions of the final errors that are glob errors at its pointer
Failing(f) ==
    {k \in 1..Len(Patterns(f)) : FailsToCompile(f, k) \/ MatchesNothing(f, k)}
GlobErrorsAt(f) == {n \in At(GlobVariants) : Errors[n].meta.path = Pointer(f)}

\* the error glob pattern k of field f yields
ExpectedGlobError(f, k) ==
    IF FailsToCompile(f, k)
    THEN InvalidGlobError(Patterns(f)[k], Pointer(f), unwrap(PatternError(Patterns(f)[k].s)))
    ELSE NoFilesMatchingGlobError(Patterns(f)[k], Pointer(f))

\* the positions of the final errors that are UnresolvedJob errors of job i,
\* and the dangling references of job i
UnresolvedAt(i) ==
    {n \in At({"UnresolvedJobError"}) :
        Errors[n].meta.path = "/jobs/" \o JobsMap[i][1] \o "/needs"}
DanglingOf(i) == {k \in 1..Len(Refs(i)) : <<i, k>> \in Dangling}

\* the number of elements of S up to x: the rank of x in S when x is in S
RankIn(S, x) == Cardinality({y \in S : y <= x})

\* C11: in the filesystem-backed build the glob errors of a Workflow run are
\* grouped by field in the order /on/push/paths, /on/push/paths-ignore,
\* /on/pull_request/paths, /on/pull_request/paths-ignore, and the r-th glob
\* error of a field is the error of the r-th failing pattern of that field;
\* in both builds the UnresolvedJob errors are grouped by job in the order
\* of the jobs map, and the r-th UnresolvedJob error of a job names the r-th
\* dangling reference of its needs.
C11_ErrorsFollowFieldAndSequenceOrder ==
    WorkflowGot =>
        /\ \A f, g \in 1..4 : \A n \in GlobErrorsAt(f), m \in GlobErrorsAt(g) :
               f < g => n < m
        /\ \A f \in 1..4 : \A n \in GlobErrorsAt(f) :
               \E k \in Failing(f) :
                   /\ RankIn(Failing(f), k) = RankIn(GlobErrorsAt(f), n)
                   /\ Errors[n] = ExpectedGlobError(f, k)
        /\ \A i, j \in 1..Len(JobsMap) : \A n \in UnresolvedAt(i), m \in UnresolvedAt(j) :
               i < j => n < m
        /\ \A i \in 1..Len(JobsMap) : \A n \in UnresolvedAt(i) :
               \E k \in DanglingOf(i) :
                   /\ RankIn(DanglingOf(i), k) = RankIn(UnresolvedAt(i), n)
                   /\ Errors[n].meta.detail = Some("unresolved job " \o Refs(i)[k].s)

C11_Witness ==
    /\ WorkflowGot /\ ~feature_js
    /\ Doc = MkDoc(ManyGlobsOn, ManyNeedsJobs)
    /\ Cardinality(GlobErrorsAt(1)) = 2 /\ Cardinality(GlobErrorsAt(4)) = 2
    /\ Errors[Len(Errors) - 9].variant = "InvalidGlobError"
    /\ Errors[Len(Errors) - 8].variant = "NoFilesMatchingGlobError"
    /\ Errors[Len(Errors) - 5].meta.path = "/on/pull_request/paths-ignore"
    /\ Errors[Len(Errors) - 4].meta.detail = Some("unresolved job z")
    /\ Errors[Len(Errors) - 3].meta.detail = Some("unresolved job y")
    /\ Errors[Len(Errors) - 2].meta.path = "/jobs/b/needs"
    /\ Errors[Len(Errors)].meta.path = "/jobs/c/needs"

\* ---------------------------------------------------------------- C12
\* the state run holds before the stamping step, for the request that ran
Seeded == unwrap(seed(Cfg).state)
Returned_state == unwrap(state)

====
